---- MODULE Spec2Model ----
(***************************************************************************)
(* Model of the rate-limited client layer of gw2gd (src/src/client.rs).    *)
(*                                                                         *)
(* Time is counted in clock ticks (the resolution of Instant/Duration).    *)
(* Token amounts (the f64 fields and locals of RateLimiter) are held in    *)
(* fixed point: one token is Resolution units.  refill_rate is held in     *)
(* units per tick and ranges over the divisors of Resolution, i.e. over    *)
(* the rates whose per-token period is a whole number of ticks (as for the *)
(* client's limiter, 5 tokens/s at nanosecond resolution), so that every   *)
(* balance and every wait the code computes is exact in this grid.         *)
(***************************************************************************)
EXTENDS Integers, Sequences, FiniteSets, TLC

\* ---------------------------------------------------------------- bounds
\* fixed-point units per token
Resolution == 2
\* largest capacity (tokens) a limiter is constructed with
MaxCapacity == 2
\* last clock tick of a behaviour
MaxTime == 5
\* largest timeout (ticks) passed to acquire_with_timeout
MaxTimeout == 2
\* largest X-Page-Total a server reports (one decimal digit)
MaxPageTotal == 3
\* largest page index a caller of the client starts from
MaxStartPage == 1
\* stand-in for usize::MAX
UsizeMax == 255
\* how often next() is applied in a row
MaxApplications == 4

\* ------------------------------------------------------- program constants
DEFAULT_PAGE_SIZE == 200
\* the cap on identifiers of a batch lookup
MaxIds == 200

Capacities == 1..MaxCapacity
Rates == {r \in 1..Resolution : Resolution % r = 0}
Times == 0..MaxTime
Timeouts == 0..MaxTimeout
\* token counts a caller asks for (u32), up to one more than the capacity
Requests(capacity) == 0..(capacity + 1)

VARIABLES
    now,        \* the monotonic clock, Instant::now()
    limiter,    \* the RateLimiter struct
    pc,         \* the caller's position: "idle", or suspended in a sleep
    wake,       \* deadline of the tokio sleep the caller is suspended in
    last,       \* the most recent limiter call and its outcome
    first,      \* the first call made on the limiter, kept for two calls
    calls,      \* limiter calls made so far: 0, 1, 2, or 3 for "three or more"
    window,     \* an observation window opening at window.start: the units
                \* granted by the calls that completed in it so far, and
                \* whether one of them asked for more than capacity
    client,     \* the call in progress on the Client: its arguments, locals
                \* and result
    log,        \* the requests the Client sent and the responses it processed
    resp,       \* the response the server has ready, when it is fixed in advance
    other,      \* a second execution context using the same limiter: its
                \* position in acquire, its deadline and what it asked for
    ranking     \* the markets given to find_profit and the ProfitResult

vars == <<now, limiter, pc, wake, last, first, calls, window, client, log, resp,
          other, ranking>>

Min(a, b) == IF a <= b THEN a ELSE b
\* used by the properties only
Max(a, b) == IF a >= b THEN a ELSE b

\* ------------------------------------------------------- conversions
\* `tokens as f64` / `self.capacity as f64`: a whole token count in units
F64(tokens) == tokens * Resolution

\* Duration::from_secs_f64(num / den): the quotient rounded to the nearest
\* tick, ties to even
from_secs_f64(num, den) ==
    LET q == num \div den
        r == num % den
    IN  IF 2 * r < den THEN q
        ELSE IF 2 * r > den THEN q + 1
        ELSE IF q % 2 = 0 THEN q ELSE q + 1

\* now.duration_since(last).as_secs_f64()
duration_since(t, earlier) == IF t >= earlier THEN t - earlier ELSE 0

\* ------------------------------------------------------- RateLimiter
new_full(capacity, tokens_per_second, t) ==
    [capacity |-> capacity, refill_rate |-> tokens_per_second,
     available_tokens |-> F64(capacity), last_update |-> t]

new(capacity, tokens_per_second, t) ==
    [capacity |-> capacity, refill_rate |-> tokens_per_second,
     available_tokens |-> 0, last_update |-> t]

calculate_current_tokens_uncapped(self, t) ==
    LET elapsed == duration_since(t, self.last_update)
    IN  IF elapsed > 0
        THEN [self EXCEPT !.available_tokens = self.available_tokens + self.refill_rate * elapsed,
                          !.last_update = t]
        ELSE self

calculate_current_tokens_stale(self, t) ==
    LET elapsed == duration_since(t, self.last_update)
    IN  IF elapsed > 0
        THEN [self EXCEPT !.available_tokens =
                  Min(self.available_tokens + self.refill_rate * elapsed, F64(self.capacity))]
        ELSE self

calculate_current_tokens_whole(self, t) ==
    LET elapsed == duration_since(t, self.last_update)
    IN  IF elapsed > 0
        THEN LET updated == Min(self.available_tokens + self.refill_rate * elapsed,
                                F64(self.capacity))
             IN  [self EXCEPT !.available_tokens = F64(updated \div Resolution),
                              !.last_update = t]
        ELSE self

calculate_current_tokens(self, t) ==
    LET elapsed == duration_since(t, self.last_update)
    IN  IF elapsed > 0
        THEN LET new_tokens == self.refill_rate * elapsed
                 current == self.available_tokens
                 updated == Min(current + new_tokens, F64(self.capacity))
             IN  [self EXCEPT !.available_tokens = updated, !.last_update = t]
        ELSE self

available(self, t) ==
    LET s == calculate_current_tokens(self, t)
    IN  [self |-> s, value |-> s.available_tokens]

try_acquire_debits_on_failure(self, t, tokens) ==
    LET s == calculate_current_tokens(available(self, t).self, t)
        avail == s.available_tokens
    IN  IF avail < F64(tokens)
        THEN [self |-> [s EXCEPT !.available_tokens = 0], ok |-> FALSE]
        ELSE [self |-> [s EXCEPT !.available_tokens = avail - F64(tokens)], ok |-> TRUE]

try_acquire_off_by_one(self, t, tokens) ==
    LET s == calculate_current_tokens(available(self, t).self, t)
        avail == s.available_tokens
    IN  IF avail <= F64(tokens)
        THEN [self |-> s, ok |-> FALSE]
        ELSE [self |-> [s EXCEPT !.available_tokens = avail - F64(tokens)], ok |-> TRUE]

\* the #[instrument] field `available = self.available()` is evaluated on
\* entry, then the body runs
try_acquire(self, t, tokens) ==
    LET s == calculate_current_tokens(available(self, t).self, t)
        avail == s.available_tokens
    IN  IF avail < F64(tokens)
        THEN [self |-> s, ok |-> FALSE]
        ELSE [self |-> [s EXCEPT !.available_tokens = avail - F64(tokens)], ok |-> TRUE]

acquire_keeps_tokens(self, t, tokens) ==
    LET s == calculate_current_tokens(self, t)
        avail == s.available_tokens
    IN  IF avail >= F64(tokens)
        THEN [self |-> [s EXCEPT !.available_tokens = avail - F64(tokens)],
              suspended |-> FALSE, wait_time |-> 0]
        ELSE [self |-> s, suspended |-> TRUE,
              wait_time |-> from_secs_f64(F64(tokens) - avail, s.refill_rate)]

acquire_short_wait(self, t, tokens) ==
    LET s == calculate_current_tokens(self, t)
        avail == s.available_tokens
    IN  IF avail >= F64(tokens)
        THEN [self |-> [s EXCEPT !.available_tokens = avail - F64(tokens)],
              suspended |-> FALSE, wait_time |-> 0]
        ELSE [self |-> [s EXCEPT !.available_tokens = 0], suspended |-> TRUE,
              wait_time |-> from_secs_f64(F64(tokens) - avail, s.refill_rate) - 1]

acquire_forgets_debit(self, t, tokens) ==
    LET s == calculate_current_tokens(self, t)
        avail == s.available_tokens
    IN  IF avail >= F64(tokens)
        THEN [self |-> s, suspended |-> FALSE, wait_time |-> 0]
        ELSE [self |-> [s EXCEPT !.available_tokens = 0], suspended |-> TRUE,
              wait_time |-> from_secs_f64(F64(tokens) - avail, s.refill_rate)]

\* acquire up to the sleep: the limiter state it leaves, whether it suspends
\* and for how long
acquire(self, t, tokens) ==
    LET s == calculate_current_tokens(self, t)
        avail == s.available_tokens
    IN  IF avail >= F64(tokens)
        THEN [self |-> [s EXCEPT !.available_tokens = avail - F64(tokens)],
              suspended |-> FALSE, wait_time |-> 0]
        ELSE LET tokens_needed == F64(tokens) - avail
                 wait_time == from_secs_f64(tokens_needed, s.refill_rate)
             IN  [self |-> [s EXCEPT !.available_tokens = 0],
                  suspended |-> TRUE, wait_time |-> wait_time]

acquire_resume_refills(self, t) == calculate_current_tokens(self, t)

\* acquire after the sleep
acquire_resume(self, t) == [self EXCEPT !.last_update = t]

acquire_with_timeout_strict(self, t, tokens, timeout) ==
    LET s == calculate_current_tokens(self, t)
        avail == s.available_tokens
    IN  IF avail >= F64(tokens)
        THEN [self |-> [s EXCEPT !.available_tokens = avail - F64(tokens)],
              ok |-> TRUE, suspended |-> FALSE, wait_time |-> 0]
        ELSE LET required_wait == from_secs_f64(F64(tokens) - avail, s.refill_rate)
             IN  IF required_wait >= timeout
                 THEN [self |-> s, ok |-> FALSE, suspended |-> FALSE, wait_time |-> 0]
                 ELSE [self |-> [s EXCEPT !.available_tokens = 0],
                       ok |-> TRUE, suspended |-> TRUE, wait_time |-> required_wait]

\* acquire_with_timeout up to the sleep
acquire_with_timeout(self, t, tokens, timeout) ==
    LET s == calculate_current_tokens(self, t)
        avail == s.available_tokens
    IN  IF avail >= F64(tokens)
        THEN [self |-> [s EXCEPT !.available_tokens = avail - F64(tokens)],
              ok |-> TRUE, suspended |-> FALSE, wait_time |-> 0]
        ELSE LET tokens_needed == F64(tokens) - avail
                 required_wait == from_secs_f64(tokens_needed, s.refill_rate)
             IN  IF required_wait > timeout
                 THEN [self |-> s, ok |-> FALSE, suspended |-> FALSE, wait_time |-> 0]
                 ELSE [self |-> [s EXCEPT !.available_tokens = 0],
                       ok |-> TRUE, suspended |-> TRUE, wait_time |-> required_wait]

acquire_with_timeout_resume_refills(self, t) == calculate_current_tokens(self, t)

\* acquire_with_timeout after the sleep
acquire_with_timeout_resume(self, t) == [self EXCEPT !.last_update = t]

\* ------------------------------------------------------- PaginationParams
PaginationParams(page, page_size) == [page |-> page, page_size |-> page_size]

\* the decimal digits, and the text `{}` formats a usize as
Digits == <<"0", "1", "2", "3", "4", "5", "6", "7", "8", "9">>

RECURSIVE Decimal(_)
Decimal(n) ==
    IF n < 10 THEN <<Digits[n + 1]>>
    ELSE Decimal(n \div 10) \o <<Digits[(n % 10) + 1]>>

\* a text is a sequence of characters; fixed pieces of text are held whole
to_query_string(self) ==
    <<"page=">> \o Decimal(self.page) \o <<"&", "page_size=">> \o Decimal(self.page_size)

\* the outcome of `self.page + 1` past usize::MAX: the overflow check of a
\* debug build panics, a release build wraps to 0
Panicked == [page |-> 0, page_size |-> 0, panic |-> TRUE]

Stepped(page, page_size) == [page |-> page, page_size |-> page_size, panic |-> FALSE]

next_forgets_page_size(self) ==
    IF self.page + 1 > UsizeMax
    THEN {Panicked, Stepped(0, self.page_size)}
    ELSE {Stepped(self.page + 1, DEFAULT_PAGE_SIZE)}

next_repeats_page(self) ==
    IF self.page + 1 > UsizeMax
    THEN {Panicked, Stepped(0, self.page_size)}
    ELSE {Stepped(self.page, self.page_size)}

\* next(): the set of outcomes the build can produce
next(self) ==
    IF self.page + 1 > UsizeMax
    THEN {Panicked, Stepped(0, self.page_size)}
    ELSE {Stepped(self.page + 1, self.page_size)}

\* ------------------------------------------------------- responses
HeaderNames == <<"X-Page-Size", "X-Page-Total", "X-Result-Count", "X-Result-Total">>

\* a header of a response: absent, or present with a value that is visible
\* ASCII text or is not
Absent == [present |-> FALSE, ascii |-> TRUE, text |-> <<>>]
NonAscii == [present |-> TRUE, ascii |-> FALSE, text |-> <<>>]
Text(s) == [present |-> TRUE, ascii |-> TRUE, text |-> s]

\* header values that are not an unsigned integer, and one with a sign that is
Malformed == {Text(<<>>), Text(<<"-", "1">>), Text(<<"x">>)}
Signed == Text(<<"+", "1">>)
Numerals == {Text(Decimal(n)) : n \in 0..MaxPageTotal}
HeaderValues == {Absent, NonAscii} \cup Malformed \cup {Signed} \cup Numerals

\* the items a page carries
Pages == {<<"a">>, <<"b", "a">>}
Undecodable == [decodable |-> FALSE, data |-> <<>>]
Decodable(data) == [decodable |-> TRUE, data |-> data]

Statuses == {200, 299, 300, 404}

\* the request did not produce a response
TransportFailure ==
    [transport |-> FALSE, status |-> 0,
     headers |-> [h \in 1..Len(HeaderNames) |-> Absent], body |-> Undecodable]

Response(status, headers, body) ==
    [transport |-> TRUE, status |-> status, headers |-> headers, body |-> body]

\* every response over these header values
Responses ==
    {TransportFailure} \cup
    {Response(status, headers, body) :
        status \in Statuses,
        headers \in [1..Len(HeaderNames) -> HeaderValues],
        body \in {Undecodable, Decodable(<<"a">>)}}

\* header maps with four numerals (the page total, result count and result
\* total vary together), and with one header that is not a numeral
WellFormed == {[h \in 1..Len(HeaderNames) |-> IF h = 1 THEN Text(<<"1">>) ELSE total] :
                  total \in Numerals}
Defective == {[h \in 1..Len(HeaderNames) |-> IF h = bad THEN v ELSE Text(<<"1">>)] :
                  bad \in 1..Len(HeaderNames), v \in {Absent, Text(<<"x">>)}}

\* the responses a server gives to the requests of a running client: no
\* response, a rejection, or a 2xx response with up to one bad header
ClientResponses ==
    {TransportFailure} \cup
    {Response(404, headers, Undecodable) : headers \in Defective} \cup
    {Response(200, headers, body) :
        headers \in WellFormed \cup Defective,
        body \in {Undecodable} \cup {Decodable(data) : data \in Pages}}

NoResponse == [fixed |-> FALSE, response |-> TransportFailure]

\* ------------------------------------------------------- results
NoMetadata == [page_size |-> 0, page_total |-> 0, result_count |-> 0, result_total |-> 0]

NoError == [kind |-> "", header_name |-> "", status |-> 0, count |-> 0]

Http == [NoError EXCEPT !.kind = "Http"]
RequestFailedWithBody(status) ==
    [NoError EXCEPT !.kind = "RequestFailedWithBody", !.status = status]
HeaderParseError(header_name) ==
    [NoError EXCEPT !.kind = "HeaderParseError", !.header_name = header_name]
MissingHeaderError(header_name) ==
    [NoError EXCEPT !.kind = "MissingHeaderError", !.header_name = header_name]
DeserializationError == [NoError EXCEPT !.kind = "DeserializationError"]
TooManyIds(kind, count) == [NoError EXCEPT !.kind = kind, !.count = count]

Pending == [status |-> "pending", data |-> <<>>, metadata |-> NoMetadata, error |-> NoError]
Ok(data, metadata) == [Pending EXCEPT !.status = "ok", !.data = data, !.metadata = metadata]
Err(error) == [Pending EXCEPT !.status = "err", !.error = error]
Panic == [Pending EXCEPT !.status = "panic"]

\* ------------------------------------------------------- Client, pure parts
\* base_url.contains('?')
contains(text, c) == \E i \in 1..Len(text) : text[i] = c

paginated_url_always_question_mark(base_url, params) ==
    base_url \o <<"?">> \o to_query_string(params)

\* the URL get_paginated requests
paginated_url(base_url, params) ==
    IF contains(base_url, "?")
    THEN base_url \o <<"&">> \o to_query_string(params)
    ELSE base_url \o <<"?">> \o to_query_string(params)

\* status.is_success()
is_success(status) == status >= 200 /\ status <= 299

\* the value of a run of decimal digits
RECURSIVE Value(_)
Value(digits) ==
    IF Len(digits) = 0 THEN 0
    ELSE 10 * Value(SubSeq(digits, 1, Len(digits) - 1))
             + (CHOOSE d \in 0..9 : Digits[d + 1] = digits[Len(digits)])

parse_empty_as_zero(s) ==
    LET digits == IF Len(s) > 0 /\ s[1] = "+" THEN Tail(s) ELSE s
    IN  IF \E i \in 1..Len(digits) : ~contains(Digits, digits[i])
        THEN [ok |-> FALSE, value |-> 0]
        ELSE IF Value(digits) > UsizeMax THEN [ok |-> FALSE, value |-> 0]
        ELSE [ok |-> TRUE, value |-> Value(digits)]

\* s.parse::<usize>(): digits after an optional "+", within usize
parse(s) ==
    LET digits == IF Len(s) > 0 /\ s[1] = "+" THEN Tail(s) ELSE s
    IN  IF Len(digits) = 0 THEN [ok |-> FALSE, value |-> 0]
        ELSE IF \E i \in 1..Len(digits) : ~contains(Digits, digits[i])
        THEN [ok |-> FALSE, value |-> 0]
        ELSE IF Value(digits) > UsizeMax THEN [ok |-> FALSE, value |-> 0]
        ELSE [ok |-> TRUE, value |-> Value(digits)]

parse_required_header_lenient(headers, h) ==
    LET header_value == headers[h]
    IN  IF ~header_value.present
        THEN [ok |-> TRUE, value |-> 0, error |-> NoError]
        ELSE IF ~header_value.ascii
        THEN [ok |-> FALSE, value |-> 0, error |-> HeaderParseError(HeaderNames[h])]
        ELSE IF ~parse(header_value.text).ok
        THEN [ok |-> FALSE, value |-> 0, error |-> HeaderParseError(HeaderNames[h])]
        ELSE [ok |-> TRUE, value |-> parse(header_value.text).value, error |-> NoError]

\* parse_required_header for the h-th of the four headers
parse_required_header(headers, h) ==
    LET header_value == headers[h]
    IN  IF ~header_value.present
        THEN [ok |-> FALSE, value |-> 0, error |-> MissingHeaderError(HeaderNames[h])]
        ELSE IF ~header_value.ascii
        THEN [ok |-> FALSE, value |-> 0, error |-> HeaderParseError(HeaderNames[h])]
        ELSE IF ~parse(header_value.text).ok
        THEN [ok |-> FALSE, value |-> 0, error |-> HeaderParseError(HeaderNames[h])]
        ELSE [ok |-> TRUE, value |-> parse(header_value.text).value, error |-> NoError]

get_paginated_response_body_first(response) ==
    LET parsed == [h \in 1..Len(HeaderNames) |-> parse_required_header(response.headers, h)]
        failed == {h \in 1..Len(HeaderNames) : ~parsed[h].ok}
    IN  IF ~response.transport THEN Err(Http)
        ELSE IF ~is_success(response.status)
        THEN Err(RequestFailedWithBody(response.status))
        ELSE IF ~response.body.decodable THEN Err(DeserializationError)
        ELSE IF failed # {}
        THEN Err(parsed[CHOOSE h \in failed : \A g \in failed : h <= g].error)
        ELSE Ok(response.body.data,
                [page_size |-> parsed[1].value, page_total |-> parsed[2].value,
                 result_count |-> parsed[3].value, result_total |-> parsed[4].value])

\* what get_paginated makes of the outcome of its request
get_paginated_response(response) ==
    LET parsed == [h \in 1..Len(HeaderNames) |-> parse_required_header(response.headers, h)]
        failed == {h \in 1..Len(HeaderNames) : ~parsed[h].ok}
    IN  IF ~response.transport THEN Err(Http)
        ELSE IF ~is_success(response.status)
        THEN Err(RequestFailedWithBody(response.status))
        ELSE IF failed # {}
        THEN Err(parsed[CHOOSE h \in failed : \A g \in failed : h <= g].error)
        ELSE IF ~response.body.decodable THEN Err(DeserializationError)
        ELSE Ok(response.body.data,
                [page_size |-> parsed[1].value, page_total |-> parsed[2].value,
                 result_count |-> parsed[3].value, result_total |-> parsed[4].value])

\* what get makes of the outcome of its request; a body that does not decode
\* is converted with `?` into GetError::Http
get_response(response) ==
    IF ~response.transport THEN Err(Http)
    ELSE IF ~is_success(response.status)
    THEN Err(RequestFailedWithBody(response.status))
    ELSE IF ~response.body.decodable THEN Err(Http)
    ELSE Ok(response.body.data, NoMetadata)

in_range_inclusive(page, page_total) == page <= page_total

\* `for page in 1..page_total`: the range yields `page`
in_range(page, page_total) == page < page_total

get_paginated_tokens_per_item(params) == params.page_size

\* the tokens get_paginated acquires for a request with these parameters
get_paginated_tokens(params) == 1

\* ------------------------------------------------------- Client, state
NoRequest == [url |-> <<>>, params |-> PaginationParams(0, 0), tokens |-> 0]

\* no call is in progress
NoClient ==
    [op |-> "none", base_url |-> <<>>, params |-> PaginationParams(0, 0),
     current_params |-> PaginationParams(0, 0), page |-> 0, page_total |-> 0,
     all_items |-> <<>>, ids |-> 0, request |-> NoRequest, result |-> Pending]

\* log entries
Requested(request) == [kind |-> "request", request |-> request, result |-> Pending]
Received(result) == [kind |-> "response", request |-> NoRequest, result |-> result]

\* ------------------------------------------------------- bookkeeping
\* the balance a limiter holds at time t by the bucket's law,
\* min(capacity, availableTokens + refillRate * elapsed): what the properties
\* compare the code's outcome with
Balance(self, t) ==
    Min(F64(self.capacity),
        self.available_tokens + self.refill_rate * (t - self.last_update))

NoCall ==
    [op |-> "none", tokens |-> 0, timeout |-> 0, called |-> 0, balance |-> 0,
     suspended |-> FALSE, result |-> FALSE, returned |-> 0]

\* the record of a call made now on the current limiter; balance is what the
\* bucket holds at the call
Call(op, tokens, timeout) ==
    [op |-> op, tokens |-> tokens, timeout |-> timeout, called |-> now,
     balance |-> Balance(limiter, now),
     suspended |-> FALSE, result |-> FALSE, returned |-> now]

NoFirst == [op |-> "none", tokens |-> 0, at |-> 0]

\* the second context is not in a call; overlap records that one of its calls
\* began while the first context was suspended in acquire
NoOther == [pc |-> "idle", wake |-> 0, tokens |-> 0, overlap |-> FALSE]

\* find_profit has not been called
NoRanking == [called |-> FALSE, markets |-> <<>>, inner |-> {}]

\* the window after a call granted `tokens` tokens completes now
Grant(tokens) ==
    IF now >= window.start
    THEN [window EXCEPT !.granted = @ + F64(tokens),
                        !.oversized = @ \/ tokens > limiter.capacity]
    ELSE window

\* one more call is made: the counter, and the first call's record
Counted(op, tokens) ==
    /\ calls' = IF calls < 3 THEN calls + 1 ELSE calls
    /\ first' = IF calls = 0 THEN [op |-> op, tokens |-> tokens, at |-> now]
                ELSE IF calls = 1 THEN first
                ELSE NoFirst

\* ------------------------------------------------------- state machine
\* a limiter has just been constructed
Constructed ==
    /\ now = 0
    /\ \E capacity \in Capacities, rate \in Rates :
           limiter = new(capacity, rate, 0)
    /\ pc = "idle"
    /\ wake = 0
    /\ last = NoCall
    /\ first = NoFirst
    /\ client = NoClient
    /\ log = <<>>
    /\ resp = NoResponse
    /\ other = NoOther
    /\ ranking = NoRanking

\* the first calls are recorded, no window is observed
Init ==
    /\ Constructed
    /\ calls = 0
    /\ window = [start |-> MaxTime + 1, granted |-> 0, oversized |-> FALSE]

\* a window opening at any time is observed, the first calls are not recorded
InitWindow ==
    /\ Constructed
    /\ calls = 3
    /\ \E start \in Times :
           window = [start |-> start, granted |-> 0, oversized |-> FALSE]

\* time passes (also while the caller sleeps, and past its deadline)
Tick ==
    /\ now < MaxTime
    /\ now' = now + 1
    /\ UNCHANGED <<limiter, pc, wake, last, first, calls, window, client, log, resp, other, ranking>>

TryAcquire(tokens) ==
    /\ pc = "idle"
    /\ LET r == try_acquire(limiter, now, tokens)
       IN  /\ limiter' = r.self
           /\ last' = [Call("try_acquire", tokens, 0) EXCEPT !.result = r.ok]
           /\ window' = IF r.ok THEN Grant(tokens) ELSE window
    /\ Counted("try_acquire", tokens)
    /\ UNCHANGED <<now, pc, wake, client, log, resp, other, ranking>>

Available ==
    /\ pc = "idle"
    /\ LET r == available(limiter, now)
       IN  /\ limiter' = r.self
           /\ last' = Call("available", 0, 0)
    /\ Counted("available", 0)
    /\ UNCHANGED <<now, pc, wake, window, client, log, resp, other, ranking>>

Acquire(tokens) ==
    /\ pc = "idle"
    /\ LET r == acquire(limiter, now, tokens)
       IN  /\ now + r.wait_time <= MaxTime
           /\ limiter' = r.self
           /\ IF r.suspended
              THEN /\ pc' = "acquire_sleep"
                   /\ wake' = now + r.wait_time
                   /\ last' = [Call("acquire", tokens, 0) EXCEPT !.suspended = TRUE]
                   /\ UNCHANGED window
              ELSE /\ last' = [Call("acquire", tokens, 0) EXCEPT !.result = TRUE]
                   /\ window' = Grant(tokens)
                   /\ UNCHANGED <<pc, wake>>
    /\ Counted("acquire", tokens)
    /\ UNCHANGED <<now, client, log, resp, other, ranking>>

AcquireResume_retries ==
    /\ pc = "acquire_sleep"
    /\ now >= wake
    /\ LET r == acquire(acquire_resume(limiter, now), now, last.tokens)
       IN  /\ limiter' = r.self
           /\ IF r.suspended
              THEN /\ wake' = now + r.wait_time
                   /\ UNCHANGED <<pc, last, window>>
              ELSE /\ pc' = "idle"
                   /\ wake' = 0
                   /\ last' = [last EXCEPT !.result = TRUE, !.returned = now]
                   /\ window' = Grant(last.tokens)
    /\ UNCHANGED <<now, first, calls, client, log, resp, other, ranking>>

AcquireResume_rejects_oversized ==
    /\ pc = "acquire_sleep"
    /\ now >= wake
    /\ last.tokens <= limiter.capacity
    /\ limiter' = acquire_resume(limiter, now)
    /\ pc' = "idle"
    /\ wake' = 0
    /\ last' = [last EXCEPT !.result = TRUE, !.returned = now]
    /\ window' = Grant(last.tokens)
    /\ UNCHANGED <<now, first, calls, client, log, resp, other, ranking>>

\* the sleep of acquire ends, at its deadline or later
AcquireResume ==
    /\ pc = "acquire_sleep"
    /\ now >= wake
    /\ limiter' = acquire_resume(limiter, now)
    /\ pc' = "idle"
    /\ wake' = 0
    /\ last' = [last EXCEPT !.result = TRUE, !.returned = now]
    /\ window' = Grant(last.tokens)
    /\ UNCHANGED <<now, first, calls, client, log, resp, other, ranking>>

AcquireWithTimeout(tokens, timeout) ==
    /\ pc = "idle"
    /\ LET r == acquire_with_timeout(limiter, now, tokens, timeout)
       IN  /\ now + r.wait_time <= MaxTime
           /\ limiter' = r.self
           /\ IF r.suspended
              THEN /\ pc' = "timeout_sleep"
                   /\ wake' = now + r.wait_time
                   /\ last' = [Call("acquire_with_timeout", tokens, timeout) EXCEPT
                                  !.suspended = TRUE]
                   /\ UNCHANGED window
              ELSE /\ last' = [Call("acquire_with_timeout", tokens, timeout) EXCEPT
                                  !.result = r.ok]
                   /\ window' = IF r.ok THEN Grant(tokens) ELSE window
                   /\ UNCHANGED <<pc, wake>>
    /\ Counted("acquire_with_timeout", tokens)
    /\ UNCHANGED <<now, client, log, resp, other, ranking>>

\* the sleep of acquire_with_timeout ends, at its deadline or later
AcquireWithTimeoutResume ==
    /\ pc = "timeout_sleep"
    /\ now >= wake
    /\ limiter' = acquire_with_timeout_resume(limiter, now)
    /\ pc' = "idle"
    /\ wake' = 0
    /\ last' = [last EXCEPT !.result = TRUE, !.returned = now]
    /\ window' = Grant(last.tokens)
    /\ UNCHANGED <<now, first, calls, client, log, resp, other, ranking>>

Next ==
    \/ Tick
    \/ \E tokens \in Requests(limiter.capacity) : TryAcquire(tokens)
    \/ Available
    \/ \E tokens \in Requests(limiter.capacity) : Acquire(tokens)
    \/ AcquireResume
    \/ \E tokens \in Requests(limiter.capacity), timeout \in Timeouts :
           AcquireWithTimeout(tokens, timeout)
    \/ AcquireWithTimeoutResume

Spec == Init /\ [][Next]_vars

WindowSpec == InitWindow /\ [][Next]_vars

\* the clock advances and a sleep whose deadline has passed ends
LiveSpec ==
    /\ Spec
    /\ WF_vars(Tick)
    /\ WF_vars(AcquireResume)
    /\ WF_vars(AcquireWithTimeoutResume)

\* ------------------------------------------------------- Client
BaseUrls == {<<"/v2/commerce/listings">>, <<"/v2/account", "?", "v=1">>}
PageSizes == {2, DEFAULT_PAGE_SIZE}
StartPages == 0..MaxStartPage
\* the arguments of a paginated call: the default parameters on a plain URL,
\* or a start page and a small page size on a URL that has a query
PaginatedCalls ==
    {[base_url |-> <<"/v2/commerce/listings">>,
      params |-> PaginationParams(0, DEFAULT_PAGE_SIZE)]} \cup
    {[base_url |-> <<"/v2/account", "?", "v=1">>, params |-> PaginationParams(page, 2)] :
        page \in StartPages}
\* how many identifiers a batch lookup is given
IdCounts == {0, 1, MaxIds - 1, MaxIds, MaxIds + 1, MaxIds + 2}

\* `acquire(tokens).await` and then the send of the request: the call `c`
\* either sends at once or is suspended in the sleep of acquire
Fetch(c, url, params, tokens) ==
    LET r == acquire(limiter, now, tokens)
        request == [url |-> url, params |-> params, tokens |-> tokens]
    IN  /\ now + r.wait_time <= MaxTime
        /\ limiter' = r.self
        /\ client' = [c EXCEPT !.request = request]
        /\ IF r.suspended
           THEN /\ pc' = "client_sleep"
                /\ wake' = now + r.wait_time
                /\ UNCHANGED <<log, window>>
           ELSE /\ pc' = "client_wait"
                /\ log' = Append(log, Requested(request))
                /\ window' = Grant(tokens)
                /\ UNCHANGED wake
        /\ UNCHANGED <<now, last, first, calls, resp, other, ranking>>

\* Client::get is called
Get(url) ==
    /\ pc = "idle"
    /\ client.op = "none"
    /\ Fetch([client EXCEPT !.op = "get", !.base_url = url],
             url, PaginationParams(0, 0), 1)

\* Client::get_paginated is called
GetPaginated(base_url, params) ==
    /\ pc = "idle"
    /\ client.op = "none"
    /\ Fetch([client EXCEPT !.op = "get_paginated", !.base_url = base_url,
                            !.params = params, !.current_params = params],
             paginated_url(base_url, params), params, get_paginated_tokens(params))

\* Client::get_all_pages is called: up to the request of the first page
GetAllPages(base_url, params) ==
    /\ pc = "idle"
    /\ client.op = "none"
    /\ Fetch([client EXCEPT !.op = "get_all_pages", !.base_url = base_url,
                            !.params = params, !.current_params = params],
             paginated_url(base_url, params), params, get_paginated_tokens(params))

GetMany_unchecked(op, ids) ==
    /\ pc = "idle"
    /\ client.op = "none"
    /\ IF ids = 0
       THEN /\ client' = [client EXCEPT !.op = op, !.ids = ids,
                                        !.result = Ok(<<>>, NoMetadata)]
            /\ pc' = "done"
            /\ UNCHANGED <<now, limiter, wake, last, first, calls, window, log, resp, other, ranking>>
       ELSE Fetch([client EXCEPT !.op = op, !.ids = ids],
                  <<"/v2/commerce", "?", "ids=", ids>>, PaginationParams(0, 0), 1)

\* get_many_listings / get_many_prices is called with `ids` identifiers
GetMany(op, ids) ==
    /\ pc = "idle"
    /\ client.op = "none"
    /\ IF ids > MaxIds
       THEN /\ client' = [client EXCEPT
                   !.op = op, !.ids = ids,
                   !.result = Err(TooManyIds(IF op = "get_many_listings"
                                             THEN "TooManyListingIds"
                                             ELSE "TooManyItemIds", ids))]
            /\ pc' = "done"
            /\ UNCHANGED <<now, limiter, wake, last, first, calls, window, log, resp, other, ranking>>
       ELSE IF ids = 0
       THEN /\ client' = [client EXCEPT !.op = op, !.ids = ids,
                                        !.result = Ok(<<>>, NoMetadata)]
            /\ pc' = "done"
            /\ UNCHANGED <<now, limiter, wake, last, first, calls, window, log, resp, other, ranking>>
       ELSE Fetch([client EXCEPT !.op = op, !.ids = ids],
                  <<"/v2/commerce", "?", "ids=", ids>>, PaginationParams(0, 0), 1)

\* the sleep of the acquire in get / get_paginated ends: the request is sent
ClientAcquireResume ==
    /\ pc = "client_sleep"
    /\ now >= wake
    /\ limiter' = acquire_resume(limiter, now)
    /\ window' = Grant(client.request.tokens)
    /\ log' = Append(log, Requested(client.request))
    /\ pc' = "client_wait"
    /\ wake' = 0
    /\ UNCHANGED <<now, last, first, calls, client, resp, other, ranking>>

\* the responses the server may give now
Incoming == IF resp.fixed THEN {resp.response} ELSE ClientResponses

Respond_keeps_partial(response) ==
    /\ pc = "client_wait"
    /\ LET result == IF client.op \in {"get_paginated", "get_all_pages"}
                     THEN get_paginated_response(response)
                     ELSE get_response(response)
       IN  /\ log' = Append(log, Received(result))
           /\ IF client.op = "get_all_pages" /\ result.status = "ok"
              THEN /\ client' = [client EXCEPT
                          !.all_items = @ \o result.data,
                          !.page_total = IF client.page = 0
                                         THEN result.metadata.page_total ELSE @,
                          !.page = IF @ = 0 THEN 1 ELSE @]
                   /\ pc' = "client_loop"
              ELSE /\ client' = [client EXCEPT !.result =
                          IF client.op = "get_all_pages" /\ Len(client.all_items) > 0
                          THEN Ok(client.all_items, NoMetadata) ELSE result]
                   /\ pc' = "done"
    /\ UNCHANGED <<now, limiter, wake, last, first, calls, window, resp, other, ranking>>

Respond_follows_latest(response) ==
    /\ pc = "client_wait"
    /\ LET result == IF client.op \in {"get_paginated", "get_all_pages"}
                     THEN get_paginated_response(response)
                     ELSE get_response(response)
       IN  /\ log' = Append(log, Received(result))
           /\ IF client.op = "get_all_pages" /\ result.status = "ok"
              THEN /\ client' = [client EXCEPT
                          !.all_items = @ \o result.data,
                          !.page_total = result.metadata.page_total,
                          !.page = IF @ = 0 THEN 1 ELSE @]
                   /\ pc' = "client_loop"
              ELSE /\ client' = [client EXCEPT !.result = result]
                   /\ pc' = "done"
    /\ UNCHANGED <<now, limiter, wake, last, first, calls, window, resp, other, ranking>>

Respond_refunds(response) ==
    /\ pc = "client_wait"
    /\ LET result == IF client.op \in {"get_paginated", "get_all_pages"}
                     THEN get_paginated_response(response)
                     ELSE get_response(response)
       IN  /\ log' = Append(log, Received(result))
           /\ limiter' = IF result.status = "err"
                         THEN [limiter EXCEPT !.available_tokens = @ + F64(1)]
                         ELSE limiter
           /\ IF client.op = "get_all_pages" /\ result.status = "ok"
              THEN /\ client' = [client EXCEPT
                          !.all_items = @ \o result.data,
                          !.page_total = IF client.page = 0
                                         THEN result.metadata.page_total ELSE @,
                          !.page = IF @ = 0 THEN 1 ELSE @]
                   /\ pc' = "client_loop"
              ELSE /\ client' = [client EXCEPT !.result = result]
                   /\ pc' = "done"
    /\ UNCHANGED <<now, wake, last, first, calls, window, resp, other, ranking>>

\* the outcome of the request arrives and the rest of get / get_paginated
\* runs; in get_all_pages, up to the head of the loop
Respond(response) ==
    /\ pc = "client_wait"
    /\ LET result == IF client.op \in {"get_paginated", "get_all_pages"}
                     THEN get_paginated_response(response)
                     ELSE get_response(response)
       IN  /\ log' = Append(log, Received(result))
           /\ IF client.op = "get_all_pages" /\ result.status = "ok"
              THEN /\ client' = [client EXCEPT
                          !.all_items = @ \o result.data,
                          !.page_total = IF client.page = 0
                                         THEN result.metadata.page_total ELSE @,
                          !.page = IF @ = 0 THEN 1 ELSE @]
                   /\ pc' = "client_loop"
              ELSE /\ client' = [client EXCEPT !.result = result]
                   /\ pc' = "done"
    /\ UNCHANGED <<now, limiter, wake, last, first, calls, window, resp, other, ranking>>

Continue_pipelined ==
    /\ pc \in {"client_loop", "client_wait"}
    /\ client.op = "get_all_pages"
    /\ client.page >= 1
    /\ IF in_range(client.page, client.page_total)
       THEN \E stepped \in next(client.current_params) :
                IF stepped.panic
                THEN /\ client' = [client EXCEPT !.result = Panic]
                     /\ pc' = "done"
                     /\ UNCHANGED <<now, limiter, wake, last, first, calls,
                                    window, log, resp, other, ranking>>
                ELSE LET params == PaginationParams(stepped.page, stepped.page_size)
                     IN  Fetch([client EXCEPT !.current_params = params,
                                              !.page = @ + 1],
                               paginated_url(client.base_url, params), params,
                               get_paginated_tokens(params))
       ELSE /\ client' = [client EXCEPT !.result = Ok(client.all_items, NoMetadata)]
            /\ pc' = "done"
            /\ UNCHANGED <<now, limiter, wake, last, first, calls, window, log, resp, other, ranking>>

\* the head of `for page in 1..page_total`: the next page is requested, or
\* the items are returned
Continue ==
    /\ pc = "client_loop"
    /\ IF in_range(client.page, client.page_total)
       THEN \E stepped \in next(client.current_params) :
                IF stepped.panic
                THEN /\ client' = [client EXCEPT !.result = Panic]
                     /\ pc' = "done"
                     /\ UNCHANGED <<now, limiter, wake, last, first, calls,
                                    window, log, resp, other, ranking>>
                ELSE LET params == PaginationParams(stepped.page, stepped.page_size)
                     IN  Fetch([client EXCEPT !.current_params = params,
                                              !.page = @ + 1],
                               paginated_url(client.base_url, params), params,
                               get_paginated_tokens(params))
       ELSE /\ client' = [client EXCEPT !.result = Ok(client.all_items, NoMetadata)]
            /\ pc' = "done"
            /\ UNCHANGED <<now, limiter, wake, last, first, calls, window, log, resp, other, ranking>>

\* Client::new: the client's limiter, here of MaxCapacity tokens refilled at
\* one token per tick, just constructed; every token it grants is counted
InitClient ==
    /\ now = 0
    /\ limiter = new(MaxCapacity, Resolution, 0)
    /\ pc = "idle"
    /\ wake = 0
    /\ last = NoCall
    /\ first = NoFirst
    /\ calls = 3
    /\ window = [start |-> 0, granted |-> 0, oversized |-> FALSE]
    /\ client = NoClient
    /\ log = <<>>
    /\ resp = NoResponse
    /\ other = NoOther
    /\ ranking = NoRanking

NextClient ==
    \/ Tick
    \/ \E url \in BaseUrls : Get(url)
    \/ \E call \in PaginatedCalls : GetPaginated(call.base_url, call.params)
    \/ \E call \in PaginatedCalls : GetAllPages(call.base_url, call.params)
    \/ \E op \in {"get_many_listings", "get_many_prices"}, ids \in IdCounts :
           GetMany(op, ids)
    \/ ClientAcquireResume
    \/ \E response \in Incoming : Respond(response)
    \/ Continue

ClientSpec == InitClient /\ [][NextClient]_vars

\* ------------------------------------------------------- get_paginated on every response
\* a get_paginated call on a fresh limiter of one token per tick has waited
\* for its token and sent its request; the server's response is any of Responses
InitResponse ==
    LET waited == acquire(new(1, Resolution, 0), 0, 1)
        params == PaginationParams(0, DEFAULT_PAGE_SIZE)
        base_url == <<"/v2/commerce/listings">>
        request == [url |-> paginated_url(base_url, params), params |-> params,
                    tokens |-> get_paginated_tokens(params)]
    IN  /\ now = waited.wait_time
        /\ limiter = acquire_resume(waited.self, waited.wait_time)
        /\ pc = "client_wait"
        /\ wake = 0
        /\ last = NoCall
        /\ first = NoFirst
        /\ calls = 3
        /\ window = [start |-> 0, granted |-> F64(request.tokens), oversized |-> FALSE]
        /\ client = [NoClient EXCEPT !.op = "get_paginated", !.base_url = base_url,
                                     !.params = params, !.current_params = params,
                                     !.request = request]
        /\ log = <<Requested(request)>>
        /\ \E response \in Responses : resp = [fixed |-> TRUE, response |-> response]
        /\ other = NoOther
        /\ ranking = NoRanking

NextResponse == \E response \in Incoming : Respond(response)

ResponseSpec == InitResponse /\ [][NextResponse]_vars

\* ------------------------------------------------------- next() in a row
\* any parameters; client.params keeps the original value, current_params the
\* value next() was applied to client.page times
InitNext ==
    /\ now = 0
    /\ limiter = new(1, Resolution, 0)
    /\ pc = "idle"
    /\ wake = 0
    /\ last = NoCall
    /\ first = NoFirst
    /\ calls = 3
    /\ window = [start |-> 0, granted |-> 0, oversized |-> FALSE]
    /\ \E page \in 0..UsizeMax, page_size \in PageSizes :
           client = [NoClient EXCEPT !.op = "next",
                                     !.params = PaginationParams(page, page_size),
                                     !.current_params = PaginationParams(page, page_size)]
    /\ log = <<>>
    /\ resp = NoResponse
    /\ other = NoOther
    /\ ranking = NoRanking

\* current_params = current_params.next()
ApplyNext ==
    /\ client.op = "next"
    /\ client.result.status = "pending"
    /\ client.page < MaxApplications
    /\ \E stepped \in next(client.current_params) :
           client' = IF stepped.panic
                     THEN [client EXCEPT !.result = Panic]
                     ELSE [client EXCEPT
                              !.current_params =
                                  PaginationParams(stepped.page, stepped.page_size),
                              !.page = @ + 1]
    /\ UNCHANGED <<now, limiter, pc, wake, last, first, calls, window, log, resp, other, ranking>>

NextSpec == InitNext /\ [][ApplyNext]_vars

\* ------------------------------------------------------- claims
capacity == limiter.capacity
refill_rate == limiter.refill_rate
available_tokens == limiter.available_tokens
last_update == limiter.last_update

\* the last call has returned to its caller
Returned(op) == last.op = op /\ pc = "idle"

\* units the last call lacked when it was made
Lacking == F64(last.tokens) - last.balance

\* C1: in every reachable state the balance lies between 0 and capacity.
C1_TokensWithinCapacity ==
    /\ 0 <= available_tokens
    /\ available_tokens <= F64(capacity)

\* C1 witness: a first recomputation after more time than the bucket needs to
\* fill has capped the balance at capacity.
C1_Witness ==
    /\ Returned("available")
    /\ calls = 1
    /\ refill_rate * last.called > F64(capacity)
    /\ available_tokens = F64(capacity)

\* C2: try_acquire(n) does not suspend; it succeeds exactly when the balance
\* recomputed at the call is at least n and then debits exactly n; when it
\* fails the recomputed balance is left as it is.
C2_TryAcquire ==
    last.op = "try_acquire" =>
        /\ pc = "idle" /\ ~last.suspended /\ last.returned = last.called
        /\ last.result <=> last.balance >= F64(last.tokens)
        /\ last.result => available_tokens = last.balance - F64(last.tokens)
        /\ ~last.result => available_tokens = last.balance
        /\ last_update = last.called

\* C2 witness: a try_acquire of at least one token succeeded and left a
\* remainder in the bucket.
C2_Witness ==
    /\ Returned("try_acquire")
    /\ last.result
    /\ last.tokens >= 1
    /\ available_tokens > 0
    /\ available_tokens < F64(capacity)

\* C3: as long as no granted request asked for more than capacity, the tokens
\* granted by the calls that completed inside a window are at most
\* capacity + refillRate * (length of the window).
C3_BoundedRate ==
    (now >= window.start /\ ~window.oversized) =>
        window.granted <= F64(capacity) + refill_rate * (now - window.start)

\* C3 witness: a window that opened after the start, in which an acquire that
\* had to wait completed, with the bound met exactly and more than capacity
\* granted.
C3_Witness ==
    /\ window.start > 0
    /\ now > window.start
    /\ ~window.oversized
    /\ Returned("acquire") /\ last.suspended
    /\ window.granted > F64(capacity)
    /\ window.granted = F64(capacity) + refill_rate * (now - window.start)

\* C4: a returned acquire(n) took at least max(0, (n - balance at the call) /
\* refillRate); when that is 0 it returned without suspending.
C4_AcquireWaitsLongEnough ==
    Returned("acquire") =>
        /\ refill_rate * (last.returned - last.called) >= Max(0, Lacking)
        /\ Lacking <= 0 => ~last.suspended /\ last.returned = last.called

\* C4 witness: an acquire that found part of what it needed returned exactly
\* when the missing part had refilled.
C4_Witness ==
    /\ Returned("acquire")
    /\ last.suspended
    /\ last.balance > 0
    /\ Lacking > 0
    /\ refill_rate * (last.returned - last.called) = Lacking

\* C5: an acquire that has to wait sets the balance to 0 before it suspends;
\* when it returns the balance is still 0 and last_update is the resumption
\* time, so available() at that instant reports 0.
C5_WaitLeavesNothing ==
    (last.op = "acquire" /\ last.suspended) =>
        /\ available_tokens = 0
        /\ pc = "idle" =>
               /\ last_update = last.returned
               /\ now = last.returned => available(limiter, now).value = 0

\* C5 witness: an acquire that found tokens in the bucket, waited, was resumed
\* later than its deadline, and has just returned.
C5_Witness ==
    /\ Returned("acquire")
    /\ last.suspended
    /\ last.balance > 0
    /\ now = last.returned
    /\ refill_rate * (last.returned - last.called) > Lacking

\* C6: an acquire(n) with 1 <= n <= capacity that suspends eventually
\* returns, granted, provided time advances and the sleep is not abandoned.
C6_AcquireReturns ==
    (pc = "acquire_sleep" /\ last.tokens >= 1 /\ last.tokens <= capacity)
        ~> (Returned("acquire") /\ last.result)

\* C6 witness: an acquire of a whole bucket made on an empty bucket has
\* returned after its wait.
C6_Witness ==
    /\ Returned("acquire")
    /\ last.suspended /\ last.result
    /\ last.tokens = capacity
    /\ last.balance = 0
    /\ last.returned > last.called

\* C7 as stated: an acquire(n) with n > capacity never completes as a granted
\* request.
C7_OversizedNeverGranted ==
    ~(Returned("acquire") /\ last.tokens > capacity /\ last.result)

\* C7 amended: an acquire(n) with n > capacity always has to wait, and it
\* completes as a granted request after its finite wait, leaving the balance
\* at 0.
C7_OversizedGrantedAfterWait ==
    /\ []((last.op = "acquire" /\ last.tokens > capacity) => last.suspended)
    /\ (pc = "acquire_sleep" /\ last.tokens > capacity)
           ~> (Returned("acquire") /\ last.result /\ available_tokens = 0)

\* C7 witness: an acquire of more than capacity has returned, exactly when
\* (n - balance) / refillRate had passed.
C7_Witness ==
    /\ Returned("acquire")
    /\ last.tokens > capacity
    /\ last.result
    /\ refill_rate * (last.returned - last.called) = Lacking

\* C8: acquire_with_timeout(n, t) fails exactly when the required wait
\* (n - balance) / refillRate exceeds t, then without suspending and with the
\* recomputed balance unchanged; otherwise it succeeds, debiting n at once
\* when the balance suffices and else emptying the bucket and waiting the
\* required time.
C8_AcquireWithTimeout ==
    Returned("acquire_with_timeout") =>
        /\ ~last.result <=> Lacking > refill_rate * last.timeout
        /\ ~last.result =>
               /\ available_tokens = last.balance
               /\ last_update = last.called
               /\ ~last.suspended /\ last.returned = last.called
        /\ (last.result /\ Lacking <= 0) =>
               /\ ~last.suspended /\ last.returned = last.called
               /\ available_tokens = last.balance - F64(last.tokens)
        /\ (last.result /\ Lacking > 0) =>
               /\ last.suspended
               /\ available_tokens = 0
               /\ last_update = last.returned
               /\ refill_rate * (last.returned - last.called) >= Lacking

\* C8 witness: an acquire_with_timeout whose required wait equalled its
\* timeout has succeeded after waiting.
C8_Witness ==
    /\ Returned("acquire_with_timeout")
    /\ last.result /\ last.suspended
    /\ last.timeout >= 1
    /\ Lacking = refill_rate * last.timeout

\* the first call was made when a new limiter had had the time to fill up
FirstAtFull == refill_rate * first.at >= F64(capacity)

\* C9: on a new limiter that has had the time to fill up, try_acquire(n) with
\* n <= capacity succeeds and leaves capacity - n; a try_acquire(1) that
\* follows with no time elapsed fails when n = capacity and succeeds otherwise.
C9_FullBucket ==
    /\ (calls = 1 /\ first.op = "try_acquire" /\ first.tokens <= capacity
            /\ FirstAtFull) =>
           /\ last.result
           /\ available_tokens = F64(capacity - first.tokens)
    /\ (calls = 2 /\ first.op = "try_acquire" /\ first.tokens <= capacity
            /\ FirstAtFull
            /\ last.op = "try_acquire" /\ last.tokens = 1
            /\ last.called = first.at) =>
           (last.result <=> first.tokens < capacity)

\* C9 witness: try_acquire(capacity) on the full bucket, then try_acquire(1)
\* at the same instant, which failed.
C9_Witness ==
    /\ calls = 2
    /\ first.op = "try_acquire" /\ first.tokens = capacity /\ FirstAtFull
    /\ last.op = "try_acquire" /\ last.tokens = 1 /\ last.called = first.at
    /\ ~last.result

\* C10: a new limiter holds 0 tokens; try_acquire(n) with n > capacity fails
\* in every state; try_acquire(capacity + 1) right after construction fails
\* and leaves the balance at 0.
C10_StartsEmpty ==
    /\ calls = 0 => available_tokens = 0
    /\ (last.op = "try_acquire" /\ last.tokens > capacity) => ~last.result
    /\ (calls = 1 /\ last.op = "try_acquire" /\ last.tokens = capacity + 1
            /\ last.called = 0) =>
           /\ ~last.result
           /\ available_tokens = 0

\* C10 witness: try_acquire(capacity + 1) as the first call, at the instant of
\* construction, has failed.
C10_Witness ==
    /\ calls = 1
    /\ last.op = "try_acquire" /\ last.tokens = capacity + 1
    /\ last.called = 0
    /\ ~last.result
    /\ available_tokens = 0

\* the first call left the bucket empty at first.at: a try_acquire of the
\* whole capacity on the full bucket, or any try_acquire at construction time
FirstDrained ==
    /\ first.op = "try_acquire"
    /\ \/ first.tokens = capacity /\ FirstAtFull
       \/ first.at = 0

\* C11: every recomputation sets the balance to
\* min(capacity, balance + refillRate * elapsed) and last_update to now; after
\* the bucket was drained to 0 and t ticks passed with no limiter operation,
\* available() reports min(capacity, refillRate * t).
C11_Recompute ==
    /\ (pc = "idle" /\ last.op # "none" /\ ~last.suspended) =>
           last_update = last.called
    /\ last.op = "available" => available_tokens = last.balance
    /\ (calls = 2 /\ FirstDrained /\ last.op = "available") =>
           available_tokens =
               Min(F64(capacity), refill_rate * (last.called - first.at))

\* C11 witness: the full bucket was drained, time passed, and available()
\* reports a partial refill.
C11_Witness ==
    /\ calls = 2
    /\ first.op = "try_acquire" /\ first.tokens = capacity /\ FirstAtFull
    /\ last.op = "available"
    /\ last.called > first.at
    /\ available_tokens > 0
    /\ available_tokens < F64(capacity)

\* ------------------------------------------------------- claims on the Client
\* positions of the log holding requests / responses
Sent == {i \in 1..Len(log) : log[i].kind = "request"}
Answered == {i \in 1..Len(log) : log[i].kind = "response"}

\* the n-th request sent and the response to it
RequestNo(n) == log[2 * n - 1].request
ResponseTo(n) == log[2 * n].result

\* the items of the first n responses, in order
RECURSIVE ItemsUpTo(_)
ItemsUpTo(n) == IF n = 0 THEN <<>> ELSE ItemsUpTo(n - 1) \o ResponseTo(n).data

\* an acquire made for a request is suspended in its wait
Waiting == pc = "client_sleep"

\* C12: the tokens debited from the client's limiter always equal the number
\* of requests sent, each request was acquired with one token whatever its
\* page size, and while an acquire is waiting its request is not in the log:
\* every request sent so far has been answered.
C12_OneTokenPerRequest ==
    /\ window.granted = F64(Cardinality(Sent))
    /\ \A i \in Sent : log[i].request.tokens = 1
    /\ Waiting => /\ Cardinality(Sent) = Cardinality(Answered)
                  /\ \A i \in Sent : log[i].request # client.request

\* C12 witness: the second page of an aggregation with the default page size
\* has been requested and two tokens have been debited
C12_Witness ==
    /\ client.op = "get_all_pages"
    /\ client.params.page_size = DEFAULT_PAGE_SIZE
    /\ pc = "client_wait"
    /\ Cardinality(Sent) = 2
    /\ window.granted = F64(2)

\* get_all_pages has returned its items
Aggregated ==
    /\ client.op = "get_all_pages"
    /\ pc = "done"
    /\ client.result.status = "ok"

\* the pageTotal reported by the first page
FirstPageTotal == ResponseTo(1).metadata.page_total

\* C13 as stated: a successful get_all_pages run has sent as many requests as
\* the pageTotal the first page reported, for every value including 0.
C13_CallsEqualPageTotal ==
    Aggregated => Cardinality(Sent) = FirstPageTotal

\* C13 amended: a successful get_all_pages run has sent max(1, pageTotal)
\* requests: the first page is always fetched, also when it reports 0 pages.
C13_CallsEqualPageTotalOrOne ==
    Aggregated => Cardinality(Sent) = Max(1, FirstPageTotal)

\* C13 witness: a run whose first page reported the largest pageTotal has
\* returned after that many requests
C13_Witness ==
    /\ Aggregated
    /\ FirstPageTotal = MaxPageTotal
    /\ Cardinality(Sent) = MaxPageTotal

\* the lengths of the first n pages added up
RECURSIVE LengthUpTo(_)
LengthUpTo(n) == IF n = 0 THEN 0 ELSE LengthUpTo(n - 1) + Len(ResponseTo(n).data)

\* the parameters of the n-th page of the run: the caller's, n - 1 pages on
PageNo(n) == PaginationParams(client.params.page + n - 1, client.params.page_size)

C15_FailureEndsAggregation ==
    client.op = "get_all_pages" =>
        \A i \in Answered :
            log[i].result.status = "err" =>
                /\ i = Len(log)
                /\ pc = "done"
                /\ client.result = log[i].result
                /\ client.result.status = "err"
                /\ client.result.data = <<>>
                /\ window.granted = F64(Cardinality(Sent))
                /\ 2 * Cardinality(Sent) = Len(log)

\* C15 witness: the second page failed on a missing header after the first
\* page's items had been accumulated, and time has passed since
C15_Witness ==
    /\ client.op = "get_all_pages"
    /\ Len(log) = 4
    /\ log[4].result.error.kind = "MissingHeaderError"
    /\ Len(client.all_items) > 0
    /\ client.result = log[4].result
    /\ now = MaxTime

\* ------------------------------------------------------- claims on get_paginated
\* the response the call was given
Given == resp.response

\* the response arrived and has a 2xx status
Success == Given.transport /\ Given.status >= 200 /\ Given.status <= 299

\* the header holds an unsigned integer
Numeric(h) == Given.headers[h] \in Numerals \cup {Signed}

\* a 2xx response that lacks the h-th header and no other
LacksOnly(h) ==
    /\ Success
    /\ Given.headers[h] = Absent
    /\ \A g \in 1..Len(HeaderNames) : g # h => Numeric(g)

\* C16: for each of the four headers, get_paginated on a 2xx response lacking
\* exactly that header has failed with MissingHeaderError naming it, whether
\* or not the body decodes.
C16_MissingHeaderNamed ==
    pc = "done" =>
        \A h \in 1..Len(HeaderNames) :
            LacksOnly(h) =>
                /\ client.result.status = "err"
                /\ client.result.error.kind = "MissingHeaderError"
                /\ client.result.error.header_name = HeaderNames[h]

\* C16 witness: the last header is the missing one and the body does not
\* decode either
C16_Witness ==
    /\ pc = "done"
    /\ LacksOnly(4)
    /\ ~Given.body.decodable
    /\ client.result.error.header_name = "X-Result-Total"

\* the headers that are missing or hold no unsigned integer
BadHeaders == {h \in 1..Len(HeaderNames) : ~Numeric(h)}

\* C17: get_paginated classifies by precedence: no response gives Http; a
\* non-2xx status gives RequestFailedWithBody whatever the headers are; a 2xx
\* response with a bad header gives that header's error whatever the body is;
\* DeserializationError is returned exactly for a 2xx response with four good
\* headers and an undecodable body; anything else succeeds.
C17_Precedence ==
    pc = "done" =>
        LET error == client.result.error
        IN  /\ ~Given.transport => error.kind = "Http"
            /\ (Given.transport /\ ~Success) =>
                   /\ error.kind = "RequestFailedWithBody"
                   /\ error.status = Given.status
            /\ (Success /\ BadHeaders # {}) =>
                   /\ error.kind \in {"MissingHeaderError", "HeaderParseError"}
                   /\ \E h \in BadHeaders :
                          /\ error.header_name = HeaderNames[h]
                          /\ \A g \in BadHeaders : h <= g
            /\ error.kind = "DeserializationError" <=>
                   (Success /\ BadHeaders = {} /\ ~Given.body.decodable)
            /\ client.result.status = "ok" <=>
                   (Success /\ BadHeaders = {} /\ Given.body.decodable)

\* C17 witness: a 2xx response with an unparseable header and an undecodable
\* body was reported as the header's error
C17_Witness ==
    /\ pc = "done"
    /\ Success
    /\ Given.headers[2] = Text(<<"x">>)
    /\ BadHeaders = {2}
    /\ ~Given.body.decodable
    /\ client.result.error = HeaderParseError("X-Page-Total")

\* ------------------------------------------------------- claims on PaginationParams
\* how often next() has been applied, to what, and what it has yielded
Applications == client.page
Original == client.params
Yielded == client.current_params

\* C18 as stated: next() applied k times to any parameters has yielded
\* (page + k, pageSize), every application yielding a value.
C18_NextAddsK ==
    client.op = "next" =>
        /\ client.result.status # "panic"
        /\ Yielded = PaginationParams(Original.page + Applications, Original.page_size)

\* C18 amended: next() applied k times to parameters with page + k within
\* usize has yielded (page + k, pageSize); an application fails only on the
\* largest page, and page_size is the original's in every case.
C18_NextAddsKWithinUsize ==
    client.op = "next" =>
        /\ Original.page + Applications <= UsizeMax =>
               Yielded = PaginationParams(Original.page + Applications,
                                          Original.page_size)
        /\ client.result.status = "panic" => Yielded.page = UsizeMax
        /\ Yielded.page_size = Original.page_size

\* C18 witness: next() has been applied MaxApplications times from page 1
\* with page size 2
C18_Witness ==
    /\ client.op = "next"
    /\ Applications = MaxApplications
    /\ Original = PaginationParams(1, 2)
    /\ Yielded = PaginationParams(1 + MaxApplications, 2)

\* ------------------------------------------------------- claims on the batch lookups
BatchLookup == client.op \in {"get_many_listings", "get_many_prices"}

\* the error kind of the lookup for too many identifiers
TooMany == IF client.op = "get_many_listings" THEN "TooManyListingIds" ELSE "TooManyItemIds"

\* C19: a batch lookup given more than 200 identifiers has returned the
\* too-many-ids error carrying their number, with no request sent, no token
\* granted and the limiter as constructed; given exactly 200 it does not fail
\* the check: it acquires its token and sends its one request.
C19_TooManyIds ==
    BatchLookup =>
        /\ client.ids > 200 =>
               /\ pc = "done"
               /\ client.result.status = "err"
               /\ client.result.error.kind = TooMany
               /\ client.result.error.count = client.ids
               /\ log = <<>>
               /\ window.granted = 0
               /\ available_tokens = 0 /\ last_update = 0
        /\ client.ids = 200 =>
               /\ client.result.error.kind # TooMany
               /\ Waiting \/ Cardinality(Sent) = 1

\* C19 witness: a price lookup with 201 identifiers was refused at a time
\* when the bucket had tokens to give
C19_Witness ==
    /\ client.op = "get_many_prices"
    /\ client.ids = 201
    /\ client.result.error.count = 201
    /\ now = MaxTime
    /\ log = <<>>

\* ------------------------------------------------------- claims on the order of pages
\* C20: within a get_all_pages call requests and responses alternate, so at
\* most one request is outstanding; and while the acquire for a page is
\* waiting or its request is outstanding, every earlier page has been answered
\* successfully and its items are in all_items.
C20_OnePageAtATime ==
    client.op = "get_all_pages" =>
        /\ \A i \in 1..Len(log) :
               log[i].kind = IF i % 2 = 1 THEN "request" ELSE "response"
        /\ Cardinality(Sent) - Cardinality(Answered) \in {0, 1}
        /\ Waiting => Cardinality(Sent) = Cardinality(Answered)
        /\ (Waiting \/ pc = "client_wait") =>
               /\ \A n \in 1..Cardinality(Answered) : ResponseTo(n).status = "ok"
               /\ client.all_items = ItemsUpTo(Cardinality(Answered))

\* C20 witness: the acquire for the third page is waiting, two pages have
\* been answered and their items appended
C20_Witness ==
    /\ client.op = "get_all_pages"
    /\ Waiting
    /\ Cardinality(Answered) = 2
    /\ client.all_items = ResponseTo(1).data \o ResponseTo(2).data
    /\ client.request.params.page = client.params.page + 2

\* ------------------------------------------------------- two contexts, one limiter
\* the first context calls acquire; its calls begin while the second context
\* is not in a call, so that the contexts are told apart by who overlaps whom
FirstAcquire(tokens) ==
    /\ other.pc = "idle"
    /\ Acquire(tokens)

\* the second context calls acquire, also while the first is suspended
OtherAcquire(tokens) ==
    /\ other.pc = "idle"
    /\ LET r == acquire(limiter, now, tokens)
       IN  /\ now + r.wait_time <= MaxTime
           /\ limiter' = r.self
           /\ IF r.suspended
              THEN /\ other' = [pc |-> "sleep", wake |-> now + r.wait_time,
                                tokens |-> tokens,
                                overlap |-> other.overlap \/ pc = "acquire_sleep"]
                   /\ UNCHANGED window
              ELSE /\ other' = [other EXCEPT !.tokens = tokens,
                                             !.overlap = @ \/ pc = "acquire_sleep"]
                   /\ window' = Grant(tokens)
    /\ UNCHANGED <<now, pc, wake, last, first, calls, client, log, resp, ranking>>

\* the sleep of the second context's acquire ends
OtherAcquireResume ==
    /\ other.pc = "sleep"
    /\ now >= other.wake
    /\ limiter' = acquire_resume(limiter, now)
    /\ window' = Grant(other.tokens)
    /\ other' = [other EXCEPT !.pc = "idle", !.wake = 0]
    /\ UNCHANGED <<now, pc, wake, last, first, calls, client, log, resp, ranking>>

\* every token granted since construction is counted
InitShared ==
    /\ Constructed
    /\ calls = 3
    /\ window = [start |-> 0, granted |-> 0, oversized |-> FALSE]

NextShared ==
    \/ Tick
    \/ \E tokens \in Requests(limiter.capacity) : FirstAcquire(tokens)
    \/ AcquireResume
    \/ \E tokens \in Requests(limiter.capacity) : OtherAcquire(tokens)
    \/ OtherAcquireResume

SharedSpec == InitShared /\ [][NextShared]_vars

\* both contexts have returned from their calls
BothReturned == pc = "idle" /\ other.pc = "idle"

\* the units the bucket accrued since it was constructed empty at time 0
Accrued == refill_rate * now

\* C21: with two contexts on one limiter the calls can be granted more than
\* the bucket accrued, and whenever both have returned with more granted than
\* accrued, a call of the second context began while the first was suspended
\* in its wait.
C21_OvergrantByOverlap ==
    (BothReturned /\ window.granted > Accrued) => other.overlap

\* C21 witness: the second acquire began during the first one's wait, both
\* have returned, and two tokens were granted where one had accrued
C21_Witness ==
    /\ BothReturned
    /\ other.overlap
    /\ window.granted = F64(2)
    /\ Accrued = F64(1)

\* ------------------------------------------------------- an abandoned acquire
AcquireAbandon_refunds ==
    /\ pc = "acquire_sleep"
    /\ limiter' = [limiter EXCEPT !.available_tokens = last.balance]
    /\ pc' = "idle"
    /\ wake' = 0
    /\ last' = [last EXCEPT !.returned = now]
    /\ UNCHANGED <<now, first, calls, window, client, log, resp, other, ranking>>

\* the caller drops the future of acquire while it is suspended in its sleep:
\* the rest of the body never runs and nothing is granted
AcquireAbandon ==
    /\ pc = "acquire_sleep"
    /\ pc' = "idle"
    /\ wake' = 0
    /\ last' = [last EXCEPT !.returned = now]
    /\ UNCHANGED <<now, limiter, first, calls, window, client, log, resp, other, ranking>>

NextAbandon ==
    \/ Next
    \/ AcquireAbandon

AbandonSpec == Init /\ [][NextAbandon]_vars

\* the last call was an acquire that was abandoned in its wait
Abandoned ==
    /\ pc = "idle"
    /\ last.op = "acquire"
    /\ last.suspended
    /\ ~last.result

\* C22: after an acquire is abandoned in its wait the balance is the 0 written
\* before the wait and last_update is the time of the call, so the bucket holds
\* from then on only what refilled since the call: the balance the call found
\* is not given back.
C22_NoRefund ==
    Abandoned =>
        /\ available_tokens = 0
        /\ last_update = last.called
        /\ Balance(limiter, now) =
               Min(F64(capacity), refill_rate * (now - last.called))

\* C22 witness: an acquire that found tokens in the bucket was abandoned
\* before its deadline and time has passed since the call
C22_Witness ==
    /\ Abandoned
    /\ last.balance > 0
    /\ last.returned < last.called + from_secs_f64(Lacking, refill_rate)
    /\ now > last.returned

\* ------------------------------------------------------- acquire_with_timeout against acquire
\* the limiter as the last call found it once it had recomputed its tokens
Found == [limiter EXCEPT !.available_tokens = last.balance, !.last_update = last.called]

\* what acquire would have done in place of the last call
Instead == acquire(Found, last.called, last.tokens)

\* C23: an acquire_with_timeout that does not fail goes as acquire(n) started
\* in the same state at the same time: it suspends exactly when acquire would,
\* with the same deadline and the same limiter state during the wait, and it
\* leaves the balance and last_update acquire would have left on return.
C23_TimeoutAsAcquire ==
    /\ pc = "timeout_sleep" =>
           /\ Instead.suspended
           /\ wake = last.called + Instead.wait_time
           /\ limiter = Instead.self
    /\ (Returned("acquire_with_timeout") /\ last.result) =>
           /\ last.suspended = Instead.suspended
           /\ limiter = IF Instead.suspended
                        THEN acquire_resume(Instead.self, last.returned)
                        ELSE Instead.self
    /\ \A tokens \in Requests(capacity), timeout \in Timeouts :
           LET with == acquire_with_timeout(limiter, now, tokens, timeout)
               without == acquire(limiter, now, tokens)
           IN  with.ok =>
                   /\ with.self = without.self
                   /\ with.suspended = without.suspended
                   /\ with.wait_time = without.wait_time

\* C23 witness: an acquire_with_timeout that found part of its tokens has
\* returned after its wait, later than its deadline
C23_Witness ==
    /\ Returned("acquire_with_timeout")
    /\ last.result
    /\ last.suspended
    /\ last.balance > 0
    /\ last.returned > last.called + Instead.wait_time

\* ------------------------------------------------------- claims on header parsing
\* the h-th header is there but holds no unsigned integer
Unparseable(h) == Given.headers[h].present /\ ~Numeric(h)

\* C24: get_paginated on a 2xx response whose first bad header is present
\* but holds no unsigned integer (empty, negative, not a number, not ASCII)
\* has failed with HeaderParseError naming that header, whatever the later
\* headers and the body are.
C24_HeaderParseErrorNamed ==
    pc = "done" =>
        \A h \in 1..Len(HeaderNames) :
            (Success /\ Unparseable(h) /\ \A g \in BadHeaders : h <= g) =>
                /\ client.result.status = "err"
                /\ client.result.error.kind = "HeaderParseError"
                /\ client.result.error.header_name = HeaderNames[h]

\* C24 witness: X-Result-Count is empty, a later header is missing and the
\* body does not decode
C24_Witness ==
    /\ pc = "done"
    /\ Success
    /\ Given.headers[3] = Text(<<>>)
    /\ Given.headers[4] = Absent
    /\ BadHeaders = {3, 4}
    /\ ~Given.body.decodable
    /\ client.result.error.kind = "HeaderParseError"
    /\ client.result.error.header_name = "X-Result-Count"

\* ------------------------------------------------------- claims on the request URL
\* the call is get_paginated or get_all_pages
Paginated == client.op \in {"get_paginated", "get_all_pages"}

\* the query fragment for the parameters, character by character
Fragment(params) ==
    <<"page=">> \o Decimal(params.page) \o <<"&", "page_size=">>
        \o Decimal(params.page_size)

\* the separator the base URL calls for
Separator(base_url) ==
    IF \E i \in 1..Len(base_url) : base_url[i] = "?" THEN "&" ELSE "?"

\* C25: every request of a paginated call goes to the base URL followed by
\* "&" if the base URL holds a "?" and by "?" otherwise, followed by
\* page=<p>&page_size=<s> for the parameters of that request; a single
\* get_paginated carries the caller's parameters.
C25_PaginatedUrl ==
    Paginated =>
        /\ \A i \in Sent :
               log[i].request.url =
                   client.base_url \o <<Separator(client.base_url)>>
                       \o Fragment(log[i].request.params)
        /\ (client.op = "get_paginated" /\ Sent # {}) =>
               RequestNo(1).params = client.params

\* C25 witness: the second page of an aggregation on a base URL with a query
\* went to /v2/account?v=1&page=2&page_size=2
C25_Witness ==
    /\ client.op = "get_all_pages"
    /\ Cardinality(Sent) = 2
    /\ client.params = PaginationParams(1, 2)
    /\ RequestNo(2).url =
           <<"/v2/account", "?", "v=1", "&", "page=", "2", "&", "page_size=", "2">>

\* ------------------------------------------------------- claims on recomputation
\* a step that recomputes the balance without debiting: available(), or a
\* try_acquire that fails
Recomputes ==
    \/ Available
    \/ \E tokens \in Requests(capacity) : TryAcquire(tokens) /\ ~last'.result

\* C26: a recomputation without debit changes nothing about the balance at
\* any later time: by the bucket's law the state after it gives, for every
\* time from now on, the balance the state before it gives, and available()
\* reports that balance; so the balance reported after any number of such
\* steps is min(capacity, balance + refill_rate * total elapsed).
C26_PathIndependent ==
    [][Recomputes =>
           /\ \A t \in now..MaxTime : Balance(limiter', t) = Balance(limiter, t)
           /\ available_tokens' = Balance(limiter, now)]_vars

\* C26 witness: the bucket was read at one time and again at a later time,
\* and holds what refilled since construction, short of its capacity
C26_Witness ==
    /\ calls = 2
    /\ first.op = "available"
    /\ first.at > 0
    /\ last.op = "available"
    /\ last.called > first.at
    /\ available_tokens = refill_rate * now
    /\ available_tokens < F64(capacity)
    /\ available_tokens % Resolution # 0

\* ------------------------------------------------------- claims on later pages
\* C27: once the first page of get_all_pages has succeeded, the page total
\* the loop runs to is the one that page reported and stays so whatever the
\* later pages report; never more than max(1, that total) requests are sent,
\* and a run that succeeds has sent exactly that many.
C27_FirstPageTotalOnly ==
    (client.op = "get_all_pages" /\ Answered # {} /\ ResponseTo(1).status = "ok") =>
        /\ client.page_total = FirstPageTotal
        /\ Cardinality(Sent) <= Max(1, FirstPageTotal)
        /\ Aggregated => Cardinality(Sent) = Max(1, FirstPageTotal)

\* C27 witness: the first page reported two pages, the second reported more
\* pages and other result counts, and the run returned after two requests
C27_Witness ==
    /\ Aggregated
    /\ FirstPageTotal = 2
    /\ ResponseTo(2).metadata.page_total = MaxPageTotal
    /\ ResponseTo(2).metadata.result_count # ResponseTo(1).metadata.result_count
    /\ ResponseTo(2).metadata.result_total # ResponseTo(1).metadata.result_total
    /\ Cardinality(Sent) = 2

\* ------------------------------------------------------- claims on failed requests
\* the call sends one request: get, get_paginated or a batch lookup
SingleRequest == client.op \notin {"none", "next", "get_all_pages"}

\* C28: from the moment a get or get_paginated call has sent its request,
\* nothing changes the limiter or the tokens counted as granted, whatever the
\* outcome of the request is: a call that ends in an error leaves the limiter
\* as a successful call does, with its one token debited.
C28_NoRefundOnFailure ==
    /\ []((SingleRequest /\ pc = "done" /\ Sent # {}) => window.granted = F64(1))
    /\ [][(SingleRequest /\ pc = "client_wait") =>
              (limiter' = limiter /\ window' = window)]_vars

\* C28 witness: a get_paginated call that waited for its token has failed on
\* the body of the response; the bucket is as the wait left it
C28_Witness ==
    /\ client.op = "get_paginated"
    /\ pc = "done"
    /\ client.result.error.kind = "DeserializationError"
    /\ window.granted = F64(1)
    /\ available_tokens = 0
    /\ last_update = now

\* ------------------------------------------------------- strategy: ranking by profit
\* most markets given to one find_profit call
MaxMarkets == 3

\* prices are the whole numbers 1..MaxPrice
MaxPrice == 3

\* profits are kept in hundredths, the scale of SELL_FEE = dec!(0.15)
Hundredths == 100

SELL_FEE == 15

Prices == 1..MaxPrice

\* Orderbook: each side is a BTreeMap keyed by price, held here as its set of
\* keys (the size of a level plays no part in the profit)
Orderbook(bid_prices, ask_prices) == [bids |-> bid_prices, asks |-> ask_prices]

Orderbooks == {Orderbook(b, a) : b \in SUBSET Prices, a \in SUBSET Prices}

Market(id, orderbook) == [id |-> id, orderbook |-> orderbook]

None == [some |-> FALSE, value |-> 0]

Some(value) == [some |-> TRUE, value |-> value]

\* the keys of a BTreeMap in its iteration order, lowest first
RECURSIVE values(_)
values(keys) ==
    IF keys = {} THEN <<>>
    ELSE LET lowest == CHOOSE k \in keys : \A other_key \in keys : k <= other_key
         IN  <<lowest>> \o values(keys \ {lowest})

rev(s) == [i \in 1..Len(s) |-> s[Len(s) + 1 - i]]

\* bid prices, highest first
bids(ob) == rev(values(ob.bids))

\* ask prices, lowest first
asks(ob) == values(ob.asks)

\* best ask less best bid less the fee on the best ask, in hundredths; None
\* when a side is empty
calc_profit_from_spread(ob) ==
    IF asks(ob) = <<>> THEN None
    ELSE IF bids(ob) = <<>> THEN None
    ELSE LET best_ask == asks(ob)[1]
             best_bid == bids(ob)[1]
             gross_profit == Hundredths * (best_ask - best_bid)
         IN  Some(gross_profit - best_ask * SELL_FEE)

\* BTreeMap<Profit, &Market> as its set of entries: a key is held once, and
\* an entry put under a key already present takes the place of the old one
insert(map, profit, market) ==
    {e \in map : e.profit # profit} \cup {[profit |-> profit, market |-> market]}

\* filter_map(..).collect() over the first n markets, in input order
RECURSIVE collect(_, _)
collect(obs, n) ==
    IF n = 0 THEN {}
    ELSE LET profit == calc_profit_from_spread(obs[n].orderbook)
         IN  IF profit.some
             THEN insert(collect(obs, n - 1), profit.value, obs[n])
             ELSE collect(obs, n - 1)

find_profit(obs) == collect(obs, Len(obs))

\* the entries of a ProfitResult from the highest profit to the lowest
iter(inner) ==
    LET keys == values({e.profit : e \in inner})
    IN  rev([i \in 1..Len(keys) |-> CHOOSE e \in inner : e.profit = keys[i]])

best(inner) == IF iter(inner) = <<>> THEN None ELSE Some(iter(inner)[1])

\* a caller holds up to MaxMarkets markets, numbered in input order
InitRank ==
    /\ now = 0
    /\ limiter = new(1, Resolution, 0)
    /\ pc = "idle"
    /\ wake = 0
    /\ last = NoCall
    /\ first = NoFirst
    /\ calls = 3
    /\ window = [start |-> 0, granted |-> 0, oversized |-> FALSE]
    /\ client = NoClient
    /\ log = <<>>
    /\ resp = NoResponse
    /\ other = NoOther
    /\ \E n \in 0..MaxMarkets : \E books \in [1..n -> Orderbooks] :
           ranking = [NoRanking EXCEPT
                         !.markets = [i \in 1..n |-> Market(i, books[i])]]

FindProfit ==
    /\ ~ranking.called
    /\ ranking' = [ranking EXCEPT !.called = TRUE,
                                  !.inner = find_profit(ranking.markets)]
    /\ UNCHANGED <<now, limiter, pc, wake, last, first, calls, window, client, log, resp, other>>

RankSpec == InitRank /\ [][FindProfit]_vars

\* ------------------------------------------------------- claims on the ranking
\* the input markets whose order book has a bid and an ask
TwoSided ==
    {i \in DOMAIN ranking.markets :
        /\ ranking.markets[i].orderbook.bids # {}
        /\ ranking.markets[i].orderbook.asks # {}}

\* the spread profit of the i-th input market, in hundredths
SpreadProfit(i) == calc_profit_from_spread(ranking.markets[i].orderbook).value

\* iteration runs from the highest profit to the lowest
Descending ==
    LET entries == iter(ranking.inner)
    IN  \A i \in 1..Len(entries) : \A j \in 1..Len(entries) :
            i < j => entries[i].profit > entries[j].profit

\* best() is an input market of the maximum spread profit, None when no
\* market has both sides
BestIsMaximum ==
    LET found == best(ranking.inner)
    IN  IF TwoSided = {} THEN ~found.some
        ELSE /\ found.some
             /\ found.value.market.id \in TwoSided
             /\ found.value.profit = SpreadProfit(found.value.market.id)
             /\ \A i \in TwoSided : SpreadProfit(i) <= found.value.profit

\* C29 as stated: after find_profit, every market with a bid and an ask has an
\* entry of its own under its spread profit and no other market has one, so
\* the entries are as many as those markets; iteration is from the highest
\* profit to the lowest and best() is the market of maximum spread profit.
C29_OneEntryPerMarket ==
    ranking.called =>
        /\ \A i \in TwoSided : \E e \in ranking.inner :
               e.market = ranking.markets[i] /\ e.profit = SpreadProfit(i)
        /\ \A e \in ranking.inner : e.market.id \in TwoSided
        /\ Cardinality(ranking.inner) = Cardinality(TwoSided)
        /\ Descending
        /\ BestIsMaximum

\* C29, what holds of the ranking: one entry for every distinct spread profit
\* among the markets with both sides, the entry being the last such market
\* of that profit in input order; order and best() are as the claim says.
C29_OneEntryPerProfit ==
    ranking.called =>
        /\ \A e \in ranking.inner :
               /\ e.market.id \in TwoSided
               /\ e.profit = SpreadProfit(e.market.id)
               /\ \A i \in TwoSided : SpreadProfit(i) = e.profit => i <= e.market.id
        /\ Cardinality(ranking.inner) = Cardinality({SpreadProfit(i) : i \in TwoSided})
        /\ Descending
        /\ BestIsMaximum

\* C29 witness: two markets with the same best bid and best ask and a third
\* one-sided market were ranked, and one entry came back, for the second
C29_Witness ==
    /\ ranking.called
    /\ Len(ranking.markets) = MaxMarkets
    /\ TwoSided = {1, 2}
    /\ SpreadProfit(1) = SpreadProfit(2)
    /\ Cardinality(ranking.inner) = 1
    /\ best(ranking.inner).value.market.id = 2
====
